---- MODULE Spec2Model ----
(***************************************************************************)
(* State-machine model of the between-the-lines scripts:                   *)
(*   articles/myfyf-10x-rule/imdb_scraper.py   (IMDBBoxOfficeScraper)      *)
(*   articles/pay-to-lose/scrape.py            (salary table scraper)      *)
(*   articles/prem-home-invasion/merge_files.py (CSV merge, date parsing)  *)
(* Every script is sequential; one variable pc holds the position of the   *)
(* single thread of control, entry names the function the run started in.  *)
(* Three families of runs: the scrapers (Spec), the CSV merge (SpecMerge)  *)
(* and single calls of the helper functions (SpecCalls).                   *)
(***************************************************************************)
EXTENDS Integers, Sequences, FiniteSets, TLC

VARIABLES
    entry,        \* the function the run was started with
    pc,           \* position of the thread of control
    gp,           \* frame of the active get_page call
    year,         \* scrape_all_years: loop variable / scrape_year: argument
    end_year,     \* scrape_all_years: end_year
    start_year,   \* scrape_all_years: start_year
    movie_links,  \* scrape_year: list returned by extract_movie_links
    idx,          \* scrape_year: position in movie_links (1-based)
    year_data,    \* scrape_year: local list year_data
    data,         \* IMDBBoxOfficeScraper.data
    seasons,      \* scrape_multiple_seasons: the seasons argument
    sidx,         \* scrape_multiple_seasons: position in seasons (1-based)
    all_data,     \* scrape_multiple_seasons: all_data
    fn,           \* the table-scraping function being executed
    sessions,     \* one entry per webdriver.Chrome session: times quit() ran
    exc,          \* exception in flight inside the table-scraping function
    ret,          \* value the table-scraping function is about to return
    trace,        \* observable events of the run: log lines and sleeps
    column,       \* parse_date_column: df['Date'] as passed in
    parsed_df,    \* parse_date_column: what the call did and returned
    present,      \* merge: ids n with a file 'E0 (n).csv' in data_dir
    file_i,       \* merge: loop variable i of range(4, 37)
    dataframes,   \* merge: the list dataframes
    failed,       \* merge: ids whose file raised while being read
    merged,       \* merge: the value returned
    args,         \* a function called on its own: its arguments
    outcome       \* a function called on its own: how the call ended

scraperVars == <<entry, pc, gp, year, end_year, start_year, movie_links, idx, year_data,
                 data, seasons, sidx, all_data, fn, sessions, exc, ret, trace>>

mergeVars == <<column, parsed_df, present, file_i, dataframes, failed, merged>>

callVars == <<args, outcome>>

vars == <<scraperVars, mergeVars, callVars>>

(***************************************************************************)
(* Bounds of the model.                                                    *)
(***************************************************************************)
MaxRetries == 4
MaxMovies == 3
MaxYears == 2
MaxSeasons == 3
MaxRows == 2
MaxPrefix == 2
MaxPad == 19
MaxFileRows == 3
MaxText == 3

(***************************************************************************)
(* Python values.  None is the empty tuple, an int n is <<n>>, so that the *)
(* two can be compared.                                                    *)
(***************************************************************************)
None == <<>>

Some(n) == <<n>>

(***************************************************************************)
(* Exception classes and the except clauses that catch them.               *)
(***************************************************************************)
ExcParent(c) ==
    CASE c = "Timeout" -> "RequestException"
      [] c = "ConnectionError" -> "RequestException"
      [] c = "HTTPError" -> "RequestException"
      [] c = "MissingSchema" -> "RequestException"
      [] c = "RequestException" -> "OSError"
      [] c = "OSError" -> "Exception"
      [] c = "ParserRejectedMarkup" -> "Exception"
      [] c = "TimeoutException" -> "WebDriverException"
      [] c = "WebDriverException" -> "Exception"
      [] c = "ParserError" -> "ValueError"
      [] c = "KeyError" -> "Exception"
      [] c = "ValueError" -> "Exception"
      [] c = "Exception" -> "BaseException"
      [] OTHER -> "BaseException"

RECURSIVE IsSubclass(_, _)
IsSubclass(c, base) ==
    IF c = base THEN TRUE
    ELSE IF c = "BaseException" THEN FALSE
    ELSE IsSubclass(ExcParent(c), base)

(***************************************************************************)
(* Text: a str is a sequence of one-character strings.                     *)
(***************************************************************************)
Digit == {"0", "1", "2", "3", "4", "5", "6", "7", "8", "9"}

Whitespace == {" ", "\t", "\n"}

DigitVal(c) ==
    CASE c = "0" -> 0 [] c = "1" -> 1 [] c = "2" -> 2 [] c = "3" -> 3
      [] c = "4" -> 4 [] c = "5" -> 5 [] c = "6" -> 6 [] c = "7" -> 7
      [] c = "8" -> 8 [] c = "9" -> 9

RECURSIVE Strip(_)
Strip(s) ==
    IF s = <<>> THEN s
    ELSE IF Head(s) \in Whitespace THEN Strip(Tail(s))
    ELSE IF s[Len(s)] \in Whitespace THEN Strip(SubSeq(s, 1, Len(s) - 1))
    ELSE s

Remove(s, chars) == SelectSeq(s, LAMBDA c : c \notin chars)

\* Python int(str) accepts: optional sign, digits, single underscores
\* between digits, surrounding whitespace.
IsDigits(s) ==
    /\ s # <<>>
    /\ Head(s) \in Digit
    /\ s[Len(s)] \in Digit
    /\ \A i \in 1..Len(s) : s[i] \in Digit \cup {"_"}
    /\ \A i \in 1..(Len(s) - 1) : ~(s[i] = "_" /\ s[i + 1] = "_")

IsIntLiteral(s) ==
    LET t == Strip(s)
    IN  /\ t # <<>>
        /\ IF Head(t) \in {"+", "-"} THEN IsDigits(Tail(t)) ELSE IsDigits(t)

RECURSIVE DigitsValue(_)
DigitsValue(s) ==
    IF s = <<>> THEN 0
    ELSE IF s[Len(s)] = "_" THEN DigitsValue(SubSeq(s, 1, Len(s) - 1))
    ELSE 10 * DigitsValue(SubSeq(s, 1, Len(s) - 1)) + DigitVal(s[Len(s)])

IntValue(s) ==
    LET t == Strip(s)
    IN  IF Head(t) = "-" THEN 0 - DigitsValue(Tail(t))
        ELSE IF Head(t) = "+" THEN DigitsValue(Tail(t))
        ELSE DigitsValue(t)

\* IMDBBoxOfficeScraper.clean_currency
clean_currency(text) ==
    IF text = <<>> THEN None
    ELSE LET cleaned == Remove(Strip(text), {",", "$"} \cup Whitespace)
         IN  IF IsIntLiteral(cleaned) THEN Some(IntValue(cleaned)) ELSE None

\* scrape.py clean_money_value
clean_money_value(money_str) ==
    IF money_str = <<>> \/ money_str = <<"N", "/", "A">> THEN 0
    ELSE LET cleaned == Remove(money_str, {"£", " ", ","})
         IN  IF IsIntLiteral(cleaned) THEN IntValue(cleaned) ELSE 0

(***************************************************************************)
(* URLs.  requests raises MissingSchema (a RequestException) for a URL     *)
(* without a scheme, on every attempt.                                     *)
(***************************************************************************)
Url(scheme, kind, y, i) == [scheme |-> scheme, path |-> <<kind, y, i>>]

base_url == "https"

FirstYear == 2000

Years == FirstYear..(FirstYear + MaxYears - 1)

DirectUrls == {Url("https", "page", 0, 0), Url("", "page", 0, 0)}

Malformed(url) == url.scheme = ""

\* What one session.get + raise_for_status can do for a URL.
AttemptOutcomes(url) ==
    IF Malformed(url) THEN {"MissingSchema"}
    ELSE {"ok", "Timeout", "ConnectionError", "HTTPError"}

(***************************************************************************)
(* Events of the run: <<kind, level, unit-or-duration>>.                   *)
(*   start: the log line that opens a unit      raise: an exception raised *)
(*   error: the handler's error log line        sleep: time.sleep(d)       *)
(***************************************************************************)
Ev(kind, level, x) == <<kind, level, x>>

Count(tr, kind, level) ==
    Cardinality({i \in 1..Len(tr) : tr[i][1] = kind /\ tr[i][2] = level})

(***************************************************************************)
(* Pages served to the IMDb scraper.                                       *)
(***************************************************************************)
\* A year page is a sequence of <a class="a-link-normal"> anchors; kind
\* "releasegroup" has '/releasegroup/' in its href, kind "title" has not.
AnchorKinds == {"releasegroup", "title"}

Anchors(y, kinds) ==
    [i \in 1..Len(kinds) |->
        [href |-> <<kinds[i], y, i>>, text |-> <<"movie", y, i>>]]

Field(section, value_div, text) ==
    [section |-> section, value_div |-> value_div, text |-> text]

SectionKeys == {"opening_weekend", "gross_world", "budget", "gross_usa_canada"}

NoFields == [k \in SectionKeys |-> Field(FALSE, FALSE, <<>>)]

Page(kind, anchors, fields) == [kind |-> kind, anchors |-> anchors, fields |-> fields]

NoContent == Page("none", <<>>, NoFields)

\* A year page: markup html.parser rejects, or a list of anchors.
YearPages(budget) ==
    {Page("rejected", <<>>, NoFields)} \cup
    {Page("html", k, NoFields) :
        k \in UNION {[1..n -> AnchorKinds] : n \in 0..budget}}

SampleFields ==
    [k \in SectionKeys |->
        CASE k = "opening_weekend" -> Field(TRUE, TRUE, <<"$", "1", ",", "2", "0", "0">>)
          [] k = "gross_world" -> Field(FALSE, FALSE, <<>>)
          [] k = "budget" -> Field(TRUE, FALSE, <<>>)
          [] k = "gross_usa_canada" -> Field(TRUE, TRUE, <<"N", "/", "A">>)]

\* A movie page: markup html.parser rejects, a page without the
\* box_office_summary div, or a page with it.
MoviePages ==
    {Page("rejected", <<>>, NoFields),
     Page("nobox", <<>>, NoFields),
     Page("box", <<>>, SampleFields)}

\* What a movie page may hold for one of its four figures: no section, a
\* section without the value div, or a value div with some text.
FieldKinds ==
    {Field(FALSE, FALSE, <<>>),
     Field(TRUE, FALSE, <<>>),
     Field(TRUE, TRUE, <<>>),
     Field(TRUE, TRUE, <<"N", "/", "A">>),
     Field(TRUE, TRUE, <<"$", "0">>),
     Field(TRUE, TRUE, <<" ", "$", "1", ",", "2", "0", "0", "\n">>)}

\* The movie pages served to a single call of extract_box_office_data.
FieldPages ==
    {Page("rejected", <<>>, NoFields), Page("nobox", <<>>, NoFields)} \cup
    {Page("box", <<>>, f) : f \in [SectionKeys -> FieldKinds]}

\* response.content for a URL; the site holds at most MaxMovies movie links.
Contents(url) ==
    IF url.path[1] = "year"
    THEN YearPages(MaxMovies - Count(trace, "start", "movie"))
    ELSE IF url.path[1] = "releasegroup"
    THEN (IF entry = "extract_box_office_data" THEN FieldPages ELSE MoviePages)
    ELSE {Page("html", <<>>, NoFields)}

(***************************************************************************)
(* IMDBBoxOfficeScraper.get_page                                           *)
(***************************************************************************)
NoCall ==
    [url |-> Url("https", "none", 0, 0), max_retries |-> 0, attempt |-> 0,
     attempts |-> 0, failed |-> 0, sleeps |-> <<>>, log |-> <<>>,
     result |-> "idle", exc |-> "none", content |-> NoContent]

NewCall(url, n) ==
    [NoCall EXCEPT !.url = url, !.max_retries = n, !.result = "running"]

DefaultRetries == 3

\* faulty variants of Backoff, GetPageCatches and GetPageOnSuccess
BackoffLinear(attempt) == 2 * attempt + 1

GetPageCatchesTimeoutOnly(c) == IsSubclass(c, "Timeout")

GetPageOnSuccessKeepsLooping(g, content) ==
    IF g.attempt < g.max_retries - 1
    THEN [g EXCEPT !.attempts = @ + 1, !.attempt = @ + 1]
    ELSE [g EXCEPT !.attempts = @ + 1, !.result = "Response", !.content = content]

\* time.sleep(2 ** attempt)
Backoff(attempt) == 2 ^ attempt

\* except requests.RequestException
GetPageCatches(c) == IsSubclass(c, "RequestException")

\* return response
GetPageOnSuccess(g, content) ==
    [g EXCEPT !.attempts = @ + 1, !.result = "Response", !.content = content]

\* One iteration of the for loop with the outcome o of the request; content
\* is what the server answers.  failed counts the attempts that raised.
GetPageIteration(g, o, content) ==
    IF o = "ok" THEN GetPageOnSuccess(g, content)
    ELSE IF GetPageCatches(o)
    THEN IF g.attempt < g.max_retries - 1
         THEN [g EXCEPT !.attempts = @ + 1,
                        !.failed = @ + 1,
                        !.log = Append(@, "warning"),
                        !.sleeps = Append(@, Backoff(g.attempt)),
                        !.attempt = @ + 1]
         ELSE [g EXCEPT !.attempts = @ + 1,
                        !.failed = @ + 1,
                        !.log = Append(Append(@, "warning"), "error"),
                        !.result = "None"]
    ELSE [g EXCEPT !.attempts = @ + 1, !.failed = @ + 1,
                   !.result = "raised", !.exc = o]

InGetPage == pc \in {"get_page", "extract_movie_links", "extract_box_office_data"}

GetPage ==
    /\ InGetPage
    /\ gp.result = "running"
    /\ gp.attempt < gp.max_retries
    /\ \E o \in AttemptOutcomes(gp.url) :
          \E content \in IF o = "ok" THEN Contents(gp.url) ELSE {NoContent} :
             gp' = GetPageIteration(gp, o, content)
    /\ UNCHANGED <<entry, pc, year, end_year, start_year, movie_links, idx, year_data,
                   data, seasons, sidx, all_data, fn, sessions, exc, ret, trace>>
    /\ UNCHANGED <<mergeVars, callVars>>

\* range(max_retries) is empty: the function falls off its end.
GetPageFallThrough ==
    /\ InGetPage
    /\ gp.result = "running"
    /\ gp.attempt >= gp.max_retries
    /\ gp' = [gp EXCEPT !.result = "None"]
    /\ UNCHANGED <<entry, pc, year, end_year, start_year, movie_links, idx, year_data,
                   data, seasons, sidx, all_data, fn, sessions, exc, ret, trace>>
    /\ UNCHANGED <<mergeVars, callVars>>

\* urljoin(self.base_url, href)
urljoin(base, href) == Url(base, href[1], href[2], href[3])

(***************************************************************************)
(* extract_movie_links, extract_box_office_data                            *)
(***************************************************************************)
\* BeautifulSoup(response.content, 'html.parser') and the loop over the links
ParseYearPage(page, y) ==
    IF page.kind = "rejected"
    THEN [status |-> "raise", exc |-> "ParserRejectedMarkup", links |-> <<>>]
    ELSE LET all == Anchors(y, page.anchors)
             found == SelectSeq(all, LAMBDA a : a.href[1] = "releasegroup")
         IN  [status |-> "return", exc |-> "none",
              links |-> [i \in 1..Len(found) |->
                            [title |-> found[i].text,
                             url |-> urljoin(base_url, found[i].href)]]]

\* The function after its get_page call returned `result`; page is the
\* content of the response.
ExtractMovieLinks(result, page, y) ==
    IF result = "raised" THEN [status |-> "raise", exc |-> gp.exc, links |-> <<>>]
    ELSE IF result = "None" THEN [status |-> "return", exc |-> "none", links |-> <<>>]
    ELSE ParseYearPage(page, y)

\* a faulty variant of ExtractedValue: zero for a figure that is not there
ExtractedValueOrZero(f) ==
    IF f.section /\ f.value_div THEN clean_currency(Strip(f.text)) ELSE Some(0)

\* data[data_key] after the loop over sections, for the markup f of one figure
ExtractedValue(f) ==
    IF f.section /\ f.value_div THEN clean_currency(Strip(f.text)) ELSE None

\* a faulty variant of ExtractBoxOfficeData: a record even without the container
ExtractBoxOfficeDataNoContainerCheck(result, page, movie_url, movie_title) ==
    IF result = "raised" THEN [status |-> "raise", exc |-> gp.exc, rec |-> None]
    ELSE IF result = "None" THEN [status |-> "none", exc |-> "none", rec |-> None]
    ELSE IF page.kind = "rejected"
    THEN [status |-> "raise", exc |-> "ParserRejectedMarkup", rec |-> None]
    ELSE [status |-> "record", exc |-> "none",
          rec |-> [title |-> movie_title, url |-> movie_url,
                   opening_weekend |-> None, gross_world |-> None,
                   budget |-> None, gross_usa_canada |-> None]]

ExtractBoxOfficeData(result, page, movie_url, movie_title) ==
    IF result = "raised" THEN [status |-> "raise", exc |-> gp.exc, rec |-> None]
    ELSE IF result = "None" THEN [status |-> "none", exc |-> "none", rec |-> None]
    ELSE IF page.kind = "rejected"
    THEN [status |-> "raise", exc |-> "ParserRejectedMarkup", rec |-> None]
    ELSE IF page.kind = "nobox"
    THEN [status |-> "none", exc |-> "none", rec |-> None]
    ELSE [status |-> "record", exc |-> "none",
          rec |-> [title |-> movie_title, url |-> movie_url,
                   opening_weekend |-> ExtractedValue(page.fields["opening_weekend"]),
                   gross_world |-> ExtractedValue(page.fields["gross_world"]),
                   budget |-> ExtractedValue(page.fields["budget"]),
                   gross_usa_canada |-> ExtractedValue(page.fields["gross_usa_canada"])]]

(***************************************************************************)
(* scrape_year, scrape_all_years                                           *)
(***************************************************************************)
MovieDelay == 1

YearDelay == 2

\* a faulty variant of MovieHandlerCatches
MovieHandlerCatchesRequestOnly(e) == IsSubclass(e, "RequestException")

\* scrape_year: except Exception
MovieHandlerCatches(e) == IsSubclass(e, "Exception")

\* scrape_all_years: except Exception
YearHandlerCatches(e) == IsSubclass(e, "Exception")

\* An exception e leaves scrape_year: scrape_all_years logs it and goes on
\* with the next year, main() has no handler.
LeaveScrapeYear(e, tr) ==
    IF entry = "scrape_all_years" /\ YearHandlerCatches(e)
    THEN [pc |-> "scrape_all_years", year |-> year + 1,
          trace |-> Append(tr, Ev("error", "year", <<year>>))]
    ELSE [pc |-> "aborted", year |-> year, trace |-> tr]

ScrapeAllYears ==
    /\ pc = "scrape_all_years"
    /\ year <= end_year
    /\ pc' = "scrape_year"
    /\ UNCHANGED <<entry, gp, year, end_year, start_year, movie_links, idx, year_data,
                   data, seasons, sidx, all_data, fn, sessions, exc, ret, trace>>
    /\ UNCHANGED <<mergeVars, callVars>>

ScrapeAllYearsDone ==
    /\ pc = "scrape_all_years"
    /\ year > end_year
    /\ pc' = "done"
    /\ UNCHANGED <<entry, gp, year, end_year, start_year, movie_links, idx, year_data,
                   data, seasons, sidx, all_data, fn, sessions, exc, ret, trace>>
    /\ UNCHANGED <<mergeVars, callVars>>

YearUrl(y) == Url(base_url, "year", y, 0)

\* scrape_year up to the request of extract_movie_links
ScrapeYear ==
    /\ pc = "scrape_year"
    /\ trace' = Append(trace, Ev("start", "year", <<year>>))
    /\ gp' = NewCall(YearUrl(year), DefaultRetries)
    /\ pc' = "extract_movie_links"
    /\ UNCHANGED <<entry, year, end_year, start_year, movie_links, idx, year_data,
                   data, seasons, sidx, all_data, fn, sessions, exc, ret>>
    /\ UNCHANGED <<mergeVars, callVars>>

\* the rest of extract_movie_links and the start of the loop over the links
ScrapeYearLinks ==
    /\ pc = "extract_movie_links"
    /\ gp.result # "running"
    /\ LET r == ExtractMovieLinks(gp.result, gp.content, year)
              raised == Append(trace, Ev("raise", "year", <<year>>))
              out == LeaveScrapeYear(r.exc, raised)
          IN  IF r.status = "raise"
              THEN /\ pc' = out.pc
                   /\ year' = out.year
                   /\ trace' = out.trace
                   /\ UNCHANGED <<movie_links, idx, year_data>>
              ELSE /\ movie_links' = r.links
                   /\ idx' = 1
                   /\ year_data' = <<>>
                   /\ pc' = "movie_loop"
                   /\ UNCHANGED <<year, trace>>
    /\ UNCHANGED <<entry, gp, end_year, start_year, data, seasons, sidx, all_data, fn,
                   sessions, exc, ret>>
    /\ UNCHANGED <<mergeVars, callVars>>

\* extract_box_office_data up to its request
ScrapeYearNextMovie ==
    /\ pc = "movie_loop"
    /\ idx <= Len(movie_links)
    /\ trace' = Append(trace, Ev("start", "movie", movie_links[idx].title))
    /\ gp' = NewCall(movie_links[idx].url, DefaultRetries)
    /\ pc' = "extract_box_office_data"
    /\ UNCHANGED <<entry, year, end_year, start_year, movie_links, idx, year_data,
                   data, seasons, sidx, all_data, fn, sessions, exc, ret>>
    /\ UNCHANGED <<mergeVars, callVars>>

\* a faulty variant of DataAppend
DataPrepend(d, movie_data) == <<movie_data>> \o d

\* self.data.append(movie_data)
DataAppend(d, movie_data) == Append(d, movie_data)

\* the rest of one iteration of the loop of scrape_year
ScrapeYearMovie ==
    /\ pc = "extract_box_office_data"
    /\ gp.result # "running"
    /\ LET link == movie_links[idx]
              r == ExtractBoxOfficeData(gp.result, gp.content, link.url, link.title)
              raised == Append(trace, Ev("raise", "movie", link.title))
              out == LeaveScrapeYear(r.exc, raised)
              movie_data == [title |-> r.rec.title, url |-> r.rec.url,
                             opening_weekend |-> r.rec.opening_weekend,
                             gross_world |-> r.rec.gross_world,
                             budget |-> r.rec.budget,
                             gross_usa_canada |-> r.rec.gross_usa_canada,
                             year |-> year]
          IN  IF r.status = "raise"
              THEN IF MovieHandlerCatches(r.exc)
                   THEN /\ trace' = Append(raised, Ev("error", "movie", link.title))
                        /\ idx' = idx + 1
                        /\ pc' = "movie_loop"
                        /\ UNCHANGED <<year, year_data, data>>
                   ELSE /\ pc' = out.pc
                        /\ year' = out.year
                        /\ trace' = out.trace
                        /\ UNCHANGED <<idx, year_data, data>>
              ELSE /\ IF r.status = "record"
                      THEN /\ year_data' = Append(year_data, movie_data)
                           /\ data' = DataAppend(data, movie_data)
                      ELSE UNCHANGED <<year_data, data>>
                   /\ trace' = Append(trace, Ev("sleep", "movie", <<MovieDelay>>))
                   /\ idx' = idx + 1
                   /\ pc' = "movie_loop"
                   /\ UNCHANGED year
    /\ UNCHANGED <<entry, gp, end_year, start_year, movie_links, seasons, sidx, all_data,
                   fn, sessions, exc, ret>>
    /\ UNCHANGED <<mergeVars, callVars>>

\* scrape_year returns year_data; scrape_all_years then sleeps
ScrapeYearReturn ==
    /\ pc = "movie_loop"
    /\ idx > Len(movie_links)
    /\ IF entry = "scrape_all_years"
       THEN /\ trace' = Append(trace, Ev("sleep", "year", <<YearDelay>>))
            /\ year' = year + 1
            /\ pc' = "scrape_all_years"
       ELSE /\ pc' = "done"
            /\ UNCHANGED <<year, trace>>
    /\ UNCHANGED <<entry, gp, end_year, start_year, movie_links, idx, year_data, data,
                   seasons, sidx, all_data, fn, sessions, exc, ret>>
    /\ UNCHANGED <<mergeVars, callVars>>

(***************************************************************************)
(* scrape.py: the table served to the browser and the extraction scripts   *)
(***************************************************************************)
\* A row of tbody: its number of td cells, whether cells[0] holds an
\* a.firstcol link and its text, cells[1], and the text of the money cells.
Row(cells, link, name, code, money) ==
    [cells |-> cells, link |-> link, name |-> name, code |-> code, money |-> money]

RowKinds ==
    {Row(9, TRUE, "Arsenal", "ARS", <<"£", " ", "4", ",", "0", "7", "0">>),
     Row(9, FALSE, "", "", <<"N", "/", "A">>),
     Row(5, TRUE, "Chelsea", "CHE", <<"£", "4", "7">>),
     Row(4, FALSE, "", "", <<>>)}

Tables(budget) == UNION {[1..n -> RowKinds] : n \in 0..budget}

MinCellsTeamSalary == 5

MinCellsAllColumns == 9

\* var teamName = teamLink ? teamLink.textContent.trim() : 'N/A'
TeamName(row) == IF row.link THEN row.name ELSE "N/A"

\* the script of scrape_team_salary_data
ScriptTeamSalary(table) ==
    LET rows == SelectSeq(table, LAMBDA r : r.cells >= MinCellsTeamSalary)
    IN  [i \in 1..Len(rows) |->
            [team_name |-> TeamName(rows[i]), adj_gross_gbp |-> rows[i].money]]

\* the script of scrape_all_columns
ScriptAllColumns(table) ==
    LET rows == SelectSeq(table, LAMBDA r : r.cells >= MinCellsAllColumns)
    IN  [i \in 1..Len(rows) |->
            [team_name |-> TeamName(rows[i]),
             club_code |-> rows[i].code,
             weekly_gross_gbp |-> rows[i].money,
             annual_gross_gbp |-> rows[i].money,
             adj_gross_gbp |-> rows[i].money,
             keeper_gbp |-> rows[i].money,
             defense_gbp |-> rows[i].money,
             midfield_gbp |-> rows[i].money,
             forward_gbp |-> rows[i].money]]

Script(f, table) ==
    IF f = "scrape_team_salary_data" THEN ScriptTeamSalary(table)
    ELSE ScriptAllColumns(table)

\* clean_data_money_columns followed by record['season'] = season
CleanRecord(r, season) ==
    [team_name |-> r.team_name,
     club_code |-> r.club_code,
     weekly_gross_gbp |-> clean_money_value(r.weekly_gross_gbp),
     annual_gross_gbp |-> clean_money_value(r.annual_gross_gbp),
     adj_gross_gbp |-> clean_money_value(r.adj_gross_gbp),
     keeper_gbp |-> clean_money_value(r.keeper_gbp),
     defense_gbp |-> clean_money_value(r.defense_gbp),
     midfield_gbp |-> clean_money_value(r.midfield_gbp),
     forward_gbp |-> clean_money_value(r.forward_gbp),
     season |-> season]

\* generate_season_list: f"{year}-{year + 1}" is the pair <<year, year + 1>>
generate_season_list(first, last) ==
    [i \in 1..(last - first) |-> <<first + i - 1, first + i>>]

SeasonStart == 2013

(***************************************************************************)
(* scrape_team_salary_data / scrape_all_columns, one statement per action, *)
(* and scrape_multiple_seasons                                             *)
(***************************************************************************)
SeasonDelay == 2

StabilizeDelay == 2

\* a faulty variant of DriverRelease
DriverReleaseOnSuccessOnly(sess, e) ==
    IF e = "none" THEN [sess EXCEPT ![Len(sess)] = @ + 1] ELSE sess

\* finally: driver.quit()
DriverRelease(sess, e) == [sess EXCEPT ![Len(sess)] = @ + 1]

\* except Exception as e (inside the table scraper)
TableHandlerCatches(e) == IsSubclass(e, "Exception")

\* scrape_multiple_seasons: except Exception
SeasonHandlerCatches(e) == IsSubclass(e, "Exception")

\* An exception e leaves the table scraper.
LeaveTableScraper(e, tr) ==
    IF entry = "scrape_multiple_seasons" /\ SeasonHandlerCatches(e)
    THEN [pc |-> "scrape_multiple_seasons", sidx |-> sidx + 1,
          trace |-> Append(tr, Ev("error", "season", <<sidx>>))]
    ELSE [pc |-> "aborted", sidx |-> sidx, trace |-> tr]

ScrapeMultipleSeasons ==
    /\ pc = "scrape_multiple_seasons"
    /\ sidx <= Len(seasons)
    /\ trace' = Append(trace, Ev("start", "season", <<sidx>>))
    /\ fn' = "scrape_all_columns"
    /\ pc' = "chrome"
    /\ UNCHANGED <<entry, gp, year, end_year, start_year, movie_links, idx, year_data,
                   data, seasons, sidx, all_data, sessions, exc, ret>>
    /\ UNCHANGED <<mergeVars, callVars>>

ScrapeMultipleSeasonsDone ==
    /\ pc = "scrape_multiple_seasons"
    /\ sidx > Len(seasons)
    /\ pc' = "done"
    /\ UNCHANGED <<entry, gp, year, end_year, start_year, movie_links, idx, year_data,
                   data, seasons, sidx, all_data, fn, sessions, exc, ret, trace>>
    /\ UNCHANGED <<mergeVars, callVars>>

\* driver = webdriver.Chrome(options=chrome_options), before the try
Chrome ==
    /\ pc = "chrome"
    /\ \E o \in {"ok", "WebDriverException"} :
          LET out == LeaveTableScraper(o, Append(trace, Ev("raise", "season", <<sidx>>)))
          IN  IF o = "ok"
              THEN /\ sessions' = Append(sessions, 0)
                   /\ pc' = "driver_get"
                   /\ UNCHANGED <<sidx, trace>>
              ELSE /\ pc' = out.pc
                   /\ sidx' = out.sidx
                   /\ trace' = out.trace
                   /\ UNCHANGED sessions
    /\ exc' = "none"
    /\ ret' = <<>>
    /\ UNCHANGED <<entry, gp, year, end_year, start_year, movie_links, idx, year_data,
                   data, seasons, all_data, fn>>
    /\ UNCHANGED <<mergeVars, callVars>>

\* driver.get(url)
DriverGet ==
    /\ pc = "driver_get"
    /\ \E o \in {"ok", "WebDriverException"} :
          IF o = "ok"
          THEN pc' = "wait_until" /\ UNCHANGED exc
          ELSE pc' = "except" /\ exc' = o
    /\ UNCHANGED <<entry, gp, year, end_year, start_year, movie_links, idx, year_data,
                   data, seasons, sidx, all_data, fn, sessions, ret, trace>>
    /\ UNCHANGED <<mergeVars, callVars>>

\* wait.until(presence_of_element_located((By.ID, "table"))); time.sleep(2)
WaitUntil ==
    /\ pc = "wait_until"
    /\ \E o \in {"ok", "TimeoutException"} :
          IF o = "ok"
          THEN /\ pc' = "execute_script"
               /\ trace' = Append(trace, Ev("sleep", "page", <<StabilizeDelay>>))
               /\ UNCHANGED exc
          ELSE /\ pc' = "except"
               /\ exc' = o
               /\ UNCHANGED trace
    /\ UNCHANGED <<entry, gp, year, end_year, start_year, movie_links, idx, year_data,
                   data, seasons, sidx, all_data, fn, sessions, ret>>
    /\ UNCHANGED <<mergeVars, callVars>>

\* driver.execute_script(...); return
ExecuteScript ==
    /\ pc = "execute_script"
    /\ \/ \E table \in Tables(MaxRows - Len(all_data)) :
             /\ ret' = Script(fn, table)
             /\ pc' = "finally"
             /\ UNCHANGED exc
       \/ /\ exc' = "WebDriverException"
          /\ pc' = "except"
          /\ UNCHANGED ret
    /\ UNCHANGED <<entry, gp, year, end_year, start_year, movie_links, idx, year_data,
                   data, seasons, sidx, all_data, fn, sessions, trace>>
    /\ UNCHANGED <<mergeVars, callVars>>

\* except Exception as e: print; return []
Except ==
    /\ pc = "except"
    /\ IF TableHandlerCatches(exc)
       THEN /\ ret' = <<>>
            /\ trace' = Append(trace, Ev("error", "page", <<sidx>>))
       ELSE UNCHANGED <<ret, trace>>
    /\ pc' = "finally"
    /\ UNCHANGED <<entry, gp, year, end_year, start_year, movie_links, idx, year_data,
                   data, seasons, sidx, all_data, fn, sessions, exc>>
    /\ UNCHANGED <<mergeVars, callVars>>

\* finally: driver.quit(), then the function returns or the exception goes on
Finally ==
    /\ pc = "finally"
    /\ sessions' = DriverRelease(sessions, exc)
    /\ LET out == LeaveTableScraper(exc, Append(trace, Ev("raise", "season", <<sidx>>)))
       IN  IF exc # "none" /\ ~TableHandlerCatches(exc)
           THEN /\ pc' = out.pc
                /\ sidx' = out.sidx
                /\ trace' = out.trace
           ELSE /\ pc' = IF entry = "scrape_multiple_seasons"
                         THEN "season_rest" ELSE "done"
                /\ UNCHANGED <<sidx, trace>>
    /\ exc' = "none"
    /\ UNCHANGED <<entry, gp, year, end_year, start_year, movie_links, idx, year_data,
                   data, seasons, all_data, fn, ret>>
    /\ UNCHANGED <<mergeVars, callVars>>

\* the rest of the try block of scrape_multiple_seasons
SeasonRest ==
    /\ pc = "season_rest"
    /\ all_data' = all_data \o [i \in 1..Len(ret) |-> CleanRecord(ret[i], seasons[sidx])]
    /\ trace' = Append(trace, Ev("sleep", "season", <<SeasonDelay>>))
    /\ sidx' = sidx + 1
    /\ pc' = "scrape_multiple_seasons"
    /\ UNCHANGED <<entry, gp, year, end_year, start_year, movie_links, idx, year_data,
                   data, seasons, fn, sessions, exc, ret>>
    /\ UNCHANGED <<mergeVars, callVars>>

(***************************************************************************)
(* merge_files.py: dates.  A cell of the Date column is what is written in *)
(* it: a layout and the three numbers in the order written (the month      *)
(* number for an abbreviated month name).  NaT is the empty tuple, a       *)
(* Timestamp is <<year, month, day>>.                                      *)
(***************************************************************************)
NaT == <<>>

Cell(lay, a, b, c) == [lay |-> lay, a |-> a, b |-> b, c |-> c]

\* formats_to_try, in the order of the list
formats_to_try ==
    <<[name |-> "%d/%m/%Y", lay |-> "n/n/nnnn", day |-> "a", month |-> "b", year |-> "c"],
      [name |-> "%d/%m/%y", lay |-> "n/n/nn", day |-> "a", month |-> "b", year |-> "c"],
      [name |-> "%Y-%m-%d", lay |-> "nnnn-n-n", day |-> "c", month |-> "b", year |-> "a"],
      [name |-> "%d-%m-%Y", lay |-> "n-n-nnnn", day |-> "a", month |-> "b", year |-> "c"],
      [name |-> "%d %b %Y", lay |-> "n mon nnnn", day |-> "a", month |-> "b", year |-> "c"]>>

IsLeap(y) == (y % 4 = 0 /\ y % 100 # 0) \/ y % 400 = 0

DaysIn(m, y) ==
    IF m = 2 THEN (IF IsLeap(y) THEN 29 ELSE 28)
    ELSE IF m \in {4, 6, 9, 11} THEN 30 ELSE 31

\* %y: 69..99 are 1969..1999, 0..68 are 2000..2068
FullYear(lay, y) ==
    IF lay = "n/n/nn" THEN (IF y >= 69 THEN 1900 + y ELSE 2000 + y) ELSE y

Timestamp(y, m, d) ==
    IF m \in 1..12 /\ d >= 1 /\ d <= DaysIn(m, y) THEN <<y, m, d>> ELSE NaT

\* pd.to_datetime(cell, format=fmt, errors='coerce') for one cell
strptime(fmt, cell) ==
    IF cell.lay # fmt.lay THEN NaT
    ELSE Timestamp(FullYear(cell.lay, cell[fmt.year]), cell[fmt.month], cell[fmt.day])

ParseWith(fmt, col) == [k \in 1..Len(col) |-> strptime(fmt, col[k])]

\* parsed.notna().sum()
SuccessCount(parsed) == Cardinality({k \in 1..Len(parsed) : parsed[k] # NaT})

\* a faulty variant of Accepts: more than 90%
AcceptsAbove(success_count, len) == success_count > 0 /\ 10 * success_count > 9 * len

\* success_count > 0 and success_count >= len(df) * 0.9
Accepts(success_count, len) == success_count > 0 /\ 10 * success_count >= 9 * len

RECURSIVE FirstAccepted(_, _)
FirstAccepted(k, col) ==
    IF k > Len(formats_to_try) THEN 0
    ELSE IF Accepts(SuccessCount(ParseWith(formats_to_try[k], col)), Len(col)) THEN k
    ELSE FirstAccepted(k + 1, col)

\* pd.to_datetime(cell, errors='coerce', dayfirst=True) for one cell: the
\* day is read first, and second when the first number cannot be a month.
InferCell(cell) ==
    IF cell.lay \in {"n/n/nnnn", "n/n/nn", "n-n-nnnn"}
    THEN LET y == FullYear(cell.lay, cell.c)
         IN  IF Timestamp(y, cell.b, cell.a) # NaT THEN Timestamp(y, cell.b, cell.a)
             ELSE Timestamp(y, cell.a, cell.b)
    ELSE IF cell.lay = "nnnn-n-n" THEN Timestamp(cell.a, cell.b, cell.c)
    ELSE IF cell.lay = "n mon nnnn" THEN Timestamp(cell.c, cell.b, cell.a)
    ELSE NaT

\* The fallback for the column.  pandas 1.x parses cell by cell; pandas 2.x
\* applies the layout of the first cell it can parse to every cell.
FallbackModes == {"cellwise", "first-layout"}

InferColumn(col, mode) ==
    LET known == {k \in 1..Len(col) : InferCell(col[k]) # NaT}
        first == CHOOSE k \in known : \A j \in known : k <= j
    IN  [k \in 1..Len(col) |->
            IF mode = "first-layout" /\ known # {} /\ col[k].lay # col[first].lay
            THEN NaT ELSE InferCell(col[k])]

NoResult == [Date |-> <<>>, fmt |-> "not called", warned |-> FALSE]

\* parse_date_column: the Date column it leaves in df, the format it
\* accepted ("inferred" for the fallback) and whether it printed the sample.
parse_date_column(col, mode) ==
    LET k == FirstAccepted(1, col)
        inferred == InferColumn(col, mode)
    IN  IF k > 0
        THEN [Date |-> ParseWith(formats_to_try[k], col),
              fmt |-> formats_to_try[k].name, warned |-> FALSE]
        ELSE [Date |-> inferred, fmt |-> "inferred",
              warned |-> \A j \in 1..Len(inferred) : inferred[j] = NaT]

(***************************************************************************)
(* merge_premier_league_data                                               *)
(***************************************************************************)
FirstId == 4

LastId == 36

\* a faulty variant of SeasonOf
SeasonOfSeptember(date) == IF date[2] > 8 THEN date[1] + 1 ELSE date[1]

\* lambda x: x.year + 1 if x.month >= 8 else x.year
SeasonOf(date) == IF date[2] >= 8 THEN date[1] + 1 ELSE date[1]

DateLess(d1, d2) ==
    \/ d1[1] < d2[1]
    \/ d1[1] = d2[1] /\ d1[2] < d2[2]
    \/ d1[1] = d2[1] /\ d1[2] = d2[2] /\ d1[3] < d2[3]

\* sort_values('Date') of a frame without NaT (insertion of each row after
\* the rows that are not later)
RECURSIVE SortByDate(_)
SortByDate(rows) ==
    IF rows = <<>> THEN <<>>
    ELSE LET n == Len(rows)
             sorted == SortByDate(SubSeq(rows, 1, n - 1))
             before == SelectSeq(sorted, LAMBDA r : ~DateLess(rows[n].Date, r.Date))
             after == SelectSeq(sorted, LAMBDA r : DateLess(rows[n].Date, r.Date))
         IN  before \o <<rows[n]>> \o after

RECURSIVE Concat(_)
Concat(dfs) == IF dfs = <<>> THEN <<>> ELSE Head(dfs).rows \o Concat(Tail(dfs))

NotReturned == [returned |-> "running", rows |-> <<>>]

\* the function from pd.concat to its return
MergeFrames(dfs) ==
    LET merged_df == Concat(dfs)
        dropped == SelectSeq(merged_df, LAMBDA r : r.Date # NaT)
        labelled == [k \in 1..Len(dropped) |->
                        [row |-> dropped[k].row, Date |-> dropped[k].Date,
                         Season |-> SeasonOf(dropped[k].Date)]]
    IN  [returned |-> "DataFrame", rows |-> SortByDate(labelled)]

\* pd.read_csv(path) followed by parse_date_column(df) for file n
ReadFrame(n, col, mode) ==
    LET parsed == parse_date_column(col, mode)
    IN  [file |-> n,
         rows |-> [k \in 1..Len(col) |-> [row |-> <<n, k>>, Date |-> parsed.Date[k]]]]

\* Cells of the files of the model.
Cells ==
    {Cell("n/n/nnnn", 31, 7, 2020), Cell("n/n/nnnn", 1, 8, 2020),
     Cell("n/n/nn", 15, 5, 99), Cell("nnnn-n-n", 2021, 1, 15),
     Cell("n-n-nnnn", 15, 12, 2021), Cell("n mon nnnn", 15, 5, 2022),
     Cell("text", 0, 0, 0)}

FileCells ==
    {Cell("n/n/nnnn", 31, 7, 2020), Cell("n/n/nnnn", 1, 8, 2020),
     Cell("nnnn-n-n", 2021, 1, 15), Cell("text", 0, 0, 0)}

Columns(cells, n) == UNION {[1..k -> cells] : k \in 0..n}

Pad(cell, n) == [k \in 1..n |-> cell]

\* ids of the files 'E0 (n).csv' the directory of a run may hold
DirIds == {3, 7, 15, 30, 37}

RowsLoaded == Len(Concat(dataframes))

ParseDateColumn ==
    /\ entry = "parse_date_column"
    /\ pc = "parse_date_column"
    /\ \E mode \in FallbackModes : parsed_df' = parse_date_column(column, mode)
    /\ pc' = "done"
    /\ UNCHANGED <<column, present, file_i, dataframes, failed, merged>>
    /\ UNCHANGED <<entry, gp, year, end_year, start_year, movie_links, idx,
                   year_data, data, seasons, sidx, all_data, fn, sessions,
                   exc, ret, trace>>
    /\ UNCHANGED callVars

\* one iteration of the loop for a file that exists: read_csv raises, the
\* frame has no Date column, or the frame is read and its dates parsed
MergeReadFile ==
    /\ pc = "merge_loop"
    /\ file_i <= LastId
    /\ file_i \in present
    /\ \/ \E e \in {"ParserError", "KeyError"} :
             /\ IsSubclass(e, "Exception")
             /\ failed' = failed \cup {file_i}
             /\ UNCHANGED dataframes
       \/ \E col \in Columns(FileCells, MaxFileRows - RowsLoaded), mode \in FallbackModes :
             /\ dataframes' = Append(dataframes, ReadFrame(file_i, col, mode))
             /\ UNCHANGED failed
    /\ file_i' = file_i + 1
    /\ UNCHANGED <<column, parsed_df, present, merged>>
    /\ UNCHANGED <<pc, entry, gp, year, end_year, start_year, movie_links, idx,
                   year_data, data, seasons, sidx, all_data, fn, sessions,
                   exc, ret, trace>>
    /\ UNCHANGED callVars

\* one iteration for a file that does not exist
MergeSkipMissing ==
    /\ pc = "merge_loop"
    /\ file_i <= LastId
    /\ file_i \notin present
    /\ file_i' = file_i + 1
    /\ UNCHANGED <<column, parsed_df, present, dataframes, failed, merged>>
    /\ UNCHANGED <<pc, entry, gp, year, end_year, start_year, movie_links, idx,
                   year_data, data, seasons, sidx, all_data, fn, sessions,
                   exc, ret, trace>>
    /\ UNCHANGED callVars

\* if not dataframes: return None
MergeNothingLoaded ==
    /\ pc = "merge_loop"
    /\ file_i > LastId
    /\ dataframes = <<>>
    /\ merged' = [returned |-> "None", rows |-> <<>>]
    /\ pc' = "done"
    /\ UNCHANGED <<column, parsed_df, present, file_i, dataframes, failed>>
    /\ UNCHANGED <<entry, gp, year, end_year, start_year, movie_links, idx,
                   year_data, data, seasons, sidx, all_data, fn, sessions,
                   exc, ret, trace>>
    /\ UNCHANGED callVars

\* concat, dropna, the Season column, sort_values, to_csv, return
MergeConcat ==
    /\ pc = "merge_loop"
    /\ file_i > LastId
    /\ dataframes # <<>>
    /\ merged' = MergeFrames(dataframes)
    /\ pc' = "done"
    /\ UNCHANGED <<column, parsed_df, present, file_i, dataframes, failed>>
    /\ UNCHANGED <<entry, gp, year, end_year, start_year, movie_links, idx,
                   year_data, data, seasons, sidx, all_data, fn, sessions,
                   exc, ret, trace>>
    /\ UNCHANGED callVars

NotCalled == [raised |-> "not called", value |-> None]

CallIdle ==
    /\ args = <<>>
    /\ outcome = NotCalled

ScraperIdle ==
    /\ gp = NoCall
    /\ year = FirstYear
    /\ end_year = FirstYear
    /\ start_year = FirstYear
    /\ movie_links = <<>>
    /\ idx = 1
    /\ year_data = <<>>
    /\ data = <<>>
    /\ seasons = <<>>
    /\ sidx = 1
    /\ all_data = <<>>
    /\ fn = "none"
    /\ sessions = <<>>
    /\ exc = "none"
    /\ ret = <<>>
    /\ trace = <<>>

InitMerge ==
    /\ ScraperIdle
    /\ CallIdle
    /\ entry \in {"parse_date_column", "merge_premier_league_data"}
    /\ parsed_df = NoResult
    /\ file_i = FirstId
    /\ dataframes = <<>>
    /\ failed = {}
    /\ merged = NotReturned
    /\ IF entry = "parse_date_column"
       THEN /\ pc = "parse_date_column"
            /\ present = {}
            /\ \E mid \in Columns(Cells, MaxPrefix), cell \in Cells,
                  lead \in {0, 1}, pad \in 0..MaxPad :
                  column = Pad(cell, lead) \o mid \o Pad(cell, pad)
       ELSE /\ pc = "merge_loop"
            /\ column = <<>>
            /\ present \in SUBSET DirIds

NextMerge ==
    \/ ParseDateColumn
    \/ MergeReadFile
    \/ MergeSkipMissing
    \/ MergeNothingLoaded
    \/ MergeConcat

SpecMerge == InitMerge /\ [][NextMerge]_vars

(***************************************************************************)
(* The runs of the scrapers.                                               *)
(***************************************************************************)
MergeIdle ==
    /\ column = <<>>
    /\ parsed_df = NoResult
    /\ present = {}
    /\ file_i = FirstId
    /\ dataframes = <<>>
    /\ failed = {}
    /\ merged = NotReturned

Init ==
    /\ MergeIdle
    /\ CallIdle
    /\ entry \in {"get_page", "scrape_year", "scrape_all_years",
                  "scrape_multiple_seasons", "scrape_team_salary_data",
                  "scrape_all_columns"}
    /\ trace = <<>>
    /\ data = <<>>
    /\ movie_links = <<>>
    /\ idx = 1
    /\ year_data = <<>>
    /\ all_data = <<>>
    /\ sessions = <<>>
    /\ exc = "none"
    /\ ret = <<>>
    /\ sidx = 1
    /\ IF entry = "get_page"
       THEN /\ pc = "get_page"
            /\ \E u \in DirectUrls, n \in 0..MaxRetries : gp = NewCall(u, n)
       ELSE gp = NoCall
    /\ IF entry = "scrape_year"
       THEN pc = "scrape_year" /\ year \in Years /\ end_year = year
       ELSE IF entry = "scrape_all_years"
       THEN pc = "scrape_all_years" /\ year \in Years /\ end_year \in Years
       ELSE year = FirstYear /\ end_year = FirstYear
    /\ start_year = year
    /\ IF entry = "scrape_multiple_seasons"
       THEN /\ pc = "scrape_multiple_seasons"
            /\ fn = "none"
            /\ \E e \in SeasonStart..(SeasonStart + MaxSeasons) :
                  seasons = generate_season_list(SeasonStart, e)
       ELSE seasons = <<>>
    /\ IF entry \in {"scrape_team_salary_data", "scrape_all_columns"}
       THEN pc = "chrome" /\ fn = entry
       ELSE entry = "scrape_multiple_seasons" \/ fn = "none"

Next ==
    \/ GetPage
    \/ GetPageFallThrough
    \/ ScrapeAllYears
    \/ ScrapeAllYearsDone
    \/ ScrapeYear
    \/ ScrapeYearLinks
    \/ ScrapeYearNextMovie
    \/ ScrapeYearMovie
    \/ ScrapeYearReturn
    \/ ScrapeMultipleSeasons
    \/ ScrapeMultipleSeasonsDone
    \/ Chrome
    \/ DriverGet
    \/ WaitUntil
    \/ ExecuteScript
    \/ Except
    \/ Finally
    \/ SeasonRest

Spec == Init /\ [][Next]_vars

(***************************************************************************)
(* Single calls of clean_currency, clean_money_value, generate_season_list *)
(* and extract_box_office_data.                                            *)
(***************************************************************************)
\* The characters of the texts passed to the two currency functions.
Alphabet == {"£", "$", ",", " ", "\t", "4", "0", "-", "_", "x"}

SampleTexts ==
    {<<"£", " ", "4", "7", ",", "0", "7", "0", ",", "5", "7", "0">>,
     <<"£", "4", "7", ",", "0", "7", "0", ",", "5", "7", "0">>,
     <<"$", "4", "7", ",", "0", "7", "0", ",", "5", "7", "0">>,
     <<"N", "/", "A">>}

Texts == SampleTexts \cup UNION {[1..n -> Alphabet] : n \in 0..MaxText}

\* int(s): the exception it raises
IntRaises(s) == IF IsIntLiteral(s) THEN "none" ELSE "ValueError"

\* a faulty variant of CleanMoneyCatches
CleanMoneyCatchesKeyError(e) == IsSubclass(e, "KeyError")

\* clean_currency: except ValueError
CleanCurrencyCatches(e) == IsSubclass(e, "ValueError")

\* clean_money_value: except ValueError
CleanMoneyCatches(e) == IsSubclass(e, "ValueError")

Returned(v) == [raised |-> "none", value |-> v]

Raised(e) == [raised |-> e, value |-> None]

\* How a call clean_currency(text) ends.
CleanCurrencyCall(text) ==
    LET e == IntRaises(Remove(Strip(text), {",", "$"} \cup Whitespace))
    IN  IF text # <<>> /\ e # "none" /\ ~CleanCurrencyCatches(e) THEN Raised(e)
        ELSE Returned(clean_currency(text))

\* How a call clean_money_value(money_str) ends.
CleanMoneyCall(money_str) ==
    LET e == IntRaises(Remove(money_str, {"£", " ", ","}))
    IN  IF /\ money_str # <<>>
           /\ money_str # <<"N", "/", "A">>
           /\ e # "none"
           /\ ~CleanMoneyCatches(e)
        THEN Raised(e)
        ELSE Returned(Some(clean_money_value(money_str)))

\* the call in __main__: generate_season_list(2013, 2025)
SeasonEnd == 2025

DirectMovie == [title |-> <<"movie", FirstYear, 1>>,
                url |-> Url("https", "releasegroup", FirstYear, 1)]

CleanCurrency ==
    /\ pc = "clean_currency"
    /\ outcome' = CleanCurrencyCall(args.text)
    /\ pc' = "done"
    /\ UNCHANGED <<entry, gp, year, end_year, start_year, movie_links, idx, year_data,
                   data, seasons, sidx, all_data, fn, sessions, exc, ret, trace>>
    /\ UNCHANGED <<mergeVars, args>>

CleanMoneyValue ==
    /\ pc = "clean_money_value"
    /\ outcome' = CleanMoneyCall(args.money_str)
    /\ pc' = "done"
    /\ UNCHANGED <<entry, gp, year, end_year, start_year, movie_links, idx, year_data,
                   data, seasons, sidx, all_data, fn, sessions, exc, ret, trace>>
    /\ UNCHANGED <<mergeVars, args>>

GenerateSeasonList ==
    /\ pc = "generate_season_list"
    /\ outcome' = Returned(generate_season_list(args.start_year, args.end_year))
    /\ pc' = "done"
    /\ UNCHANGED <<entry, gp, year, end_year, start_year, movie_links, idx, year_data,
                   data, seasons, sidx, all_data, fn, sessions, exc, ret, trace>>
    /\ UNCHANGED <<mergeVars, args>>

\* extract_box_office_data called on its own, after its get_page returned
ExtractBoxOfficeDataReturn ==
    /\ entry = "extract_box_office_data"
    /\ pc = "extract_box_office_data"
    /\ gp.result # "running"
    /\ LET r == ExtractBoxOfficeData(gp.result, gp.content, args.movie_url,
                                     args.movie_title)
       IN  outcome' = IF r.status = "raise" THEN Raised(r.exc) ELSE Returned(r.rec)
    /\ pc' = "done"
    /\ UNCHANGED <<entry, gp, year, end_year, start_year, movie_links, idx, year_data,
                   data, seasons, sidx, all_data, fn, sessions, exc, ret, trace>>
    /\ UNCHANGED <<mergeVars, args>>

InitCalls ==
    /\ MergeIdle
    /\ entry \in {"clean_currency", "clean_money_value", "generate_season_list",
                  "extract_box_office_data"}
    /\ pc = entry
    /\ outcome = NotCalled
    /\ year = FirstYear
    /\ end_year = FirstYear
    /\ start_year = FirstYear
    /\ movie_links = <<>>
    /\ idx = 1
    /\ year_data = <<>>
    /\ data = <<>>
    /\ seasons = <<>>
    /\ sidx = 1
    /\ all_data = <<>>
    /\ fn = "none"
    /\ sessions = <<>>
    /\ exc = "none"
    /\ ret = <<>>
    /\ trace = <<>>
    /\ gp = IF entry = "extract_box_office_data"
            THEN NewCall(DirectMovie.url, DefaultRetries) ELSE NoCall
    /\ CASE entry = "clean_currency" -> \E t \in Texts : args = [text |-> t]
         [] entry = "clean_money_value" -> \E t \in Texts : args = [money_str |-> t]
         [] entry = "generate_season_list" ->
               \E a \in SeasonStart..(SeasonStart + MaxSeasons),
                  b \in (SeasonStart - 1)..SeasonEnd :
                  args = [start_year |-> a, end_year |-> b]
         [] OTHER -> args = [movie_url |-> DirectMovie.url,
                             movie_title |-> DirectMovie.title]

NextCalls ==
    \/ CleanCurrency
    \/ CleanMoneyValue
    \/ GenerateSeasonList
    \/ GetPage
    \/ ExtractBoxOfficeDataReturn

SpecCalls == InitCalls /\ [][NextCalls]_vars

(***************************************************************************)
(* Properties of get_page.                                                 *)
(***************************************************************************)
\* The delays 1, 2, 4, ... of n failed attempts that were retried.
BackoffSchedule(n) == [i \in 1..n |-> 2 ^ (i - 1)]

\* C1: for every positive max_retries = N, a get_page call whose every
\* attempt failed with a transport error made exactly N attempts, slept
\* exactly N-1 times, for 1, 2, 4, ..., 2^(N-2) in that order, and returned
\* None; while it runs, the sleeps made are the first ones of that schedule.
C1_AllAttemptsFail ==
    /\ (gp.result \notin {"idle", "running"} /\ gp.max_retries >= 1
            /\ gp.failed = gp.attempts)
        => /\ gp.attempts = gp.max_retries
           /\ gp.sleeps = BackoffSchedule(gp.max_retries - 1)
           /\ gp.result = "None"
    /\ (gp.result = "running" /\ gp.failed = gp.attempts)
        => /\ gp.attempts < gp.max_retries \/ gp.max_retries = 0
           /\ gp.sleeps = BackoffSchedule(gp.attempts)

C1_Witness ==
    /\ entry = "get_page"
    /\ gp.max_retries = 4
    /\ gp.failed = 4
    /\ gp.result = "None"
    /\ gp.sleeps = <<1, 2, 4>>

\* C2: when attempts 0..k-1 failed and attempt k succeeded, get_page has
\* returned that response: k+1 attempts were made, none after attempt k, and
\* the only sleeps are 2^0..2^(k-1), all before attempt k.
C2_SuccessReturnsImmediately ==
    gp.result = "Response"
        => /\ gp.attempts = gp.failed + 1
           /\ gp.failed < gp.max_retries
           /\ gp.attempt = gp.failed
           /\ gp.sleeps = BackoffSchedule(gp.failed)

C2_Witness ==
    /\ entry = "get_page"
    /\ gp.result = "Response"
    /\ gp.max_retries = 4
    /\ gp.failed = 2
    /\ gp.sleeps = <<1, 2>>

\* C3: get_page never raises to its caller, whatever makes an attempt fail:
\* a call ends with a response or with None; after None extract_movie_links
\* returns no links and extract_box_office_data no record, the unit is
\* skipped (no record, no error, the delay is made) and the run goes on.
C3_GetPageNeverRaises ==
    /\ gp.result # "raised"
    /\ (gp.result = "None" /\ gp.max_retries >= 1) => gp.failed = gp.max_retries
    /\ gp.result = "None" => pc # "aborted"
    /\ (gp.result = "None" /\ gp.url.path[1] = "year"
            /\ pc \in {"movie_loop", "done", "scrape_all_years"})
        => /\ movie_links = <<>>
           /\ Count(trace, "raise", "year") = Count(trace, "error", "year")
    /\ (gp.result = "None" /\ gp.url.path[1] = "releasegroup"
            /\ pc \in {"movie_loop", "done", "scrape_all_years"})
        => /\ \A i \in 1..Len(data) : data[i].url # gp.url
           /\ \A i \in 1..Len(trace) :
                 trace[i][2] = "movie" /\ trace[i][1] \in {"raise", "error"}
                     => trace[i][3] # <<"movie", gp.url.path[2], gp.url.path[3]>>
           /\ \E i \in 1..Len(trace) :
                 /\ trace[i] = Ev("sleep", "movie", <<MovieDelay>>)
                 /\ \A j \in (i + 1)..Len(trace) : trace[j][2] # "movie"

C3_Witness ==
    /\ entry = "scrape_year"
    /\ pc = "done"
    /\ Len(movie_links) = 2
    /\ gp.result = "None"
    /\ gp.url = movie_links[2].url
    /\ Len(data) = 1

(***************************************************************************)
(* Properties of the loops over units of work.                             *)
(***************************************************************************)
EventsOf(kind, level) ==
    SelectSeq(trace, LAMBDA e : e[1] = kind /\ e[2] = level)

\* The loop a run is made of, and its work list.
LoopLevel ==
    CASE entry = "scrape_year" -> "movie"
      [] entry = "scrape_all_years" -> "year"
      [] entry = "scrape_multiple_seasons" -> "season"
      [] OTHER -> "none"

WorkList ==
    CASE entry = "scrape_year" ->
            [i \in 1..Len(movie_links) |-> movie_links[i].title]
      [] entry = "scrape_all_years" ->
            [i \in 1..(end_year - start_year + 1) |-> <<start_year + i - 1>>]
      [] entry = "scrape_multiple_seasons" ->
            [i \in 1..Len(seasons) |-> <<i>>]
      [] OTHER -> <<>>

RaisedUnits(level) ==
    {trace[i][3] : i \in {j \in 1..Len(trace) :
                            trace[j][1] = "raise" /\ trace[j][2] = level}}

\* The unit a record of the run came from.
RecordUnits ==
    CASE entry = "scrape_year" -> [i \in 1..Len(data) |-> data[i].title]
      [] entry = "scrape_all_years" -> [i \in 1..Len(data) |-> <<data[i].year>>]
      [] entry = "scrape_multiple_seasons" ->
            [i \in 1..Len(all_data) |-> <<all_data[i].season[1] - SeasonStart + 1>>]
      [] OTHER -> <<>>

LinkNames == {r.name : r \in {k \in RowKinds : k.link}}

\* C5 as stated: every record of a RecordSet was appended after the
\* extraction of its primary identifying field succeeded: a movie record has
\* the title read from its link, a team record the name read from the
\* a.firstcol link of its row.
C5_IdentifyingFieldExtracted ==
    /\ \A i \in 1..Len(data) : data[i].title # <<>>
    /\ \A i \in 1..Len(all_data) : all_data[i].team_name \in LinkNames
    /\ \A i \in 1..Len(ret) : ret[i].team_name \in LinkNames

\* C5 amended: a record is appended only for a page that was fetched and in
\* which the container was found (the box_office_summary div, the table the
\* script ran on), and it carries its identifying field: the link text of
\* the movie, and for a team the a.firstcol link text or, without such a
\* link, the placeholder 'N/A'; a page whose fetch failed or whose container
\* was not found adds no record.
C5_RecordsOnlyFromLocatedContainers ==
    [][/\ data' # data =>
            /\ pc = "extract_box_office_data"
            /\ gp.result = "Response"
            /\ gp.content.kind = "box"
            /\ Len(data') = Len(data) + 1
            /\ SubSeq(data', 1, Len(data)) = data
            /\ data'[Len(data')].title = movie_links[idx].title
            /\ data'[Len(data')].url = gp.url
       /\ all_data' # all_data =>
            /\ pc = "season_rest"
            /\ Len(all_data') = Len(all_data) + Len(ret)
            /\ SubSeq(all_data', 1, Len(all_data)) = all_data
            /\ \A i \in 1..Len(ret) :
                  /\ all_data'[Len(all_data) + i].team_name = ret[i].team_name
                  /\ ret[i].team_name \in LinkNames \cup {"N/A"}
       /\ (ret' # ret /\ ret' # <<>>) =>
            /\ pc = "execute_script"
            /\ exc = "none"
            /\ trace[Len(trace)] = Ev("sleep", "page", <<StabilizeDelay>>)
      ]_vars

C5_Witness ==
    /\ entry = "scrape_multiple_seasons"
    /\ pc = "done"
    /\ Len(seasons) = 2
    /\ Count(trace, "error", "page") = 1
    /\ Len(all_data) = 2
    /\ all_data[1].team_name = "N/A"
    /\ all_data[2].team_name = "Arsenal"

LoopDelay(level) ==
    CASE level = "movie" -> MovieDelay
      [] level = "year" -> YearDelay
      [] OTHER -> SeasonDelay

SleepBetween(level, i, j) ==
    \E k \in (i + 1)..(j - 1) : trace[k] = Ev("sleep", level, <<LoopDelay(level)>>)

\* C6: the delay is made after each unit on every path: between the start
\* of a movie and the start of the next movie lies a 1-unit sleep, between
\* two years of scrape_all_years and between two seasons of
\* scrape_multiple_seasons a 2-unit sleep, and a finished run has slept
\* after its last unit, also when the unit ended in an error.
C6_DelayAfterEveryUnit ==
    \A i \in 1..Len(trace) :
        (trace[i][1] = "start" /\ trace[i][2] \in {"movie", LoopLevel}) =>
            /\ \A j \in (i + 1)..Len(trace) :
                  (trace[j][1] = "start" /\ trace[j][2] = trace[i][2])
                      => SleepBetween(trace[i][2], i, j)
            /\ (pc = "done" /\ trace[i][2] = LoopLevel)
                  => SleepBetween(trace[i][2], i, Len(trace) + 1)

\* C7: every browser session is released exactly once on every exit path:
\* each session acquired by a table scraper has had quit() called once as
\* soon as the call has left its try statement, and never more than once.
C7_SessionsReleased ==
    \A i \in 1..Len(sessions) :
        sessions[i] =
            IF i = Len(sessions)
               /\ pc \in {"driver_get", "wait_until", "execute_script",
                          "except", "finally"}
            THEN 0 ELSE 1

C7_Witness ==
    /\ entry = "scrape_multiple_seasons"
    /\ pc = "done"
    /\ Len(sessions) = 3
    /\ Count(trace, "error", "page") = 2
    /\ Len(all_data) = 1

\* C8: a malformed URL fails on the first attempt: one attempt, no backoff
\* wait and no retry.
C8_MalformedUrlNotRetried ==
    Malformed(gp.url) => gp.attempts <= 1 /\ gp.sleeps = <<>>

(***************************************************************************)
(* Properties of parse_date_column and merge_premier_league_data.          *)
(***************************************************************************)
\* Format k parses at least 90% of the cells of col.
ReachesThreshold(k, col) ==
    10 * SuccessCount(ParseWith(formats_to_try[k], col)) >= 9 * Len(col)

FormatsAtThreshold(col) ==
    {k \in 1..Len(formats_to_try) : ReachesThreshold(k, col)}

FirstAtThreshold(col) ==
    CHOOSE k \in FormatsAtThreshold(col) : \A j \in FormatsAtThreshold(col) : k <= j

ParseDateColumnDone == entry = "parse_date_column" /\ pc = "done"

\* C9 as stated: for every column the first format of the list whose
\* successful-parse count is at least 90% of the column's length is
\* accepted, the cells it does not parse are missing, and the fallback is
\* used only when no format reaches that count.
C9_FirstFormatAtThreshold ==
    ParseDateColumnDone =>
        /\ FormatsAtThreshold(column) # {} =>
              /\ parsed_df.fmt = formats_to_try[FirstAtThreshold(column)].name
              /\ parsed_df.Date = ParseWith(formats_to_try[FirstAtThreshold(column)], column)
        /\ parsed_df.fmt = "inferred" => FormatsAtThreshold(column) = {}

\* C9 amended: the same for every column with at least one cell; a column
\* without cells is accepted by no format (its count of 0 is not positive)
\* and goes to the fallback.  A column of 20 cells, 19 of them valid
\* '%d/%m/%Y' dates and one not a date, is parsed with '%d/%m/%Y' and
\* exactly that one cell is missing.
C9_FirstFormatWithPositiveCount ==
    ParseDateColumnDone =>
        /\ (column # <<>> /\ FormatsAtThreshold(column) # {}) =>
              /\ parsed_df.fmt = formats_to_try[FirstAtThreshold(column)].name
              /\ parsed_df.Date = ParseWith(formats_to_try[FirstAtThreshold(column)], column)
        /\ (column # <<>> /\ parsed_df.fmt = "inferred") => FormatsAtThreshold(column) = {}
        /\ column = <<>> => parsed_df.fmt = "inferred" /\ parsed_df.Date = <<>>
        /\ Len(parsed_df.Date) = Len(column)
        /\ (/\ Len(column) = 20
            /\ Cardinality({k \in 1..20 : column[k].lay = "text"}) = 1
            /\ \A k \in 1..20 : column[k].lay \in {"text", "n/n/nnnn"})
            => /\ parsed_df.fmt = "%d/%m/%Y"
               /\ \A k \in 1..20 :
                     parsed_df.Date[k] =
                        IF column[k].lay = "text" THEN NaT
                        ELSE <<column[k].c, column[k].b, column[k].a>>

C9_Witness ==
    /\ ParseDateColumnDone
    /\ Len(column) = 20
    /\ parsed_df.fmt = "%d/%m/%Y"
    /\ column[2].lay = "text"
    /\ {k \in 1..20 : parsed_df.Date[k] = NaT} = {2}

MergeDone == entry = "merge_premier_league_data" /\ pc = "done"

Loaded == {dataframes[k].file : k \in 1..Len(dataframes)}

Candidates == FirstId..LastId

\* The rows of the loaded frames whose date is not NaT.
ParsedRows ==
    {r \in UNION {{dataframes[k].rows[j] : j \in 1..Len(dataframes[k].rows)} :
                    k \in 1..Len(dataframes)} : r.Date # NaT}

MergedRows == {merged.rows[k] : k \in 1..Len(merged.rows)}

OutputIsParsedRowsWithSeason ==
    /\ Len(merged.rows) = Cardinality(ParsedRows)
    /\ {[row |-> r.row, Date |-> r.Date] : r \in MergedRows} = ParsedRows
    /\ \A r \in MergedRows :
          r.Season = IF r.Date[2] >= 8 THEN r.Date[1] + 1 ELSE r.Date[1]
    /\ \A k \in 1..Len(dataframes) : \A j \in 1..Len(dataframes[k].rows) :
          dataframes[k].rows[j].row = <<dataframes[k].file, j>>

\* C10 as stated: whatever candidate files are present, the merge loads
\* exactly the present ones, and its output is the rows of those files
\* whose date parsed, each with Season = year + 1 from August on and year
\* before; the rows without a date are dropped by the merge, the frames
\* returned by the normalizer still hold them.
C10_LoadsExactlyPresentFiles ==
    MergeDone =>
        /\ Loaded = present \cap Candidates
        /\ merged.returned = "DataFrame" => OutputIsParsedRowsWithSeason

\* C10 amended: the merge loads exactly the present candidate files whose
\* read and date parsing raise nothing (a present file that raises is
\* reported and skipped), in the order of their ids; it returns None when
\* it loaded none, and otherwise the output is as stated.
C10_LoadsPresentReadableFiles ==
    MergeDone =>
        /\ Loaded = (present \cap Candidates) \ failed
        /\ failed \subseteq present \cap Candidates
        /\ \A k \in 1..(Len(dataframes) - 1) : dataframes[k].file < dataframes[k + 1].file
        /\ merged.returned = IF Loaded = {} THEN "None" ELSE "DataFrame"
        /\ merged.returned = "DataFrame" => OutputIsParsedRowsWithSeason
        /\ merged.returned = "None" => merged.rows = <<>>

C10_Witness ==
    /\ MergeDone
    /\ present = {7, 15, 30}
    /\ Loaded = {7, 15, 30}
    /\ Len(Concat(dataframes)) = 3
    /\ {r.Season : r \in MergedRows} = {2020, 2021}
    /\ Len(merged.rows) = 2

(***************************************************************************)
(* Properties of the single calls.                                         *)
(***************************************************************************)
Kept(t, removed) == SelectSeq(t, LAMBDA c : c \notin removed)

AllDigits(s) == s # <<>> /\ \A i \in 1..Len(s) : s[i] \in Digit

RECURSIVE Decimal(_)
Decimal(s) ==
    IF s = <<>> THEN 0 ELSE 10 * Decimal(SubSeq(s, 1, Len(s) - 1)) + DigitVal(s[Len(s)])

\* Text no reading takes for an integer: without a digit, or with a
\* character that is no digit, sign, underscore or blank.
Unparsable(s) ==
    \/ \A i \in 1..Len(s) : s[i] \notin Digit
    \/ \E i \in 1..Len(s) : s[i] \notin Digit \cup {"+", "-", "_", " ", "\t", "\n"}

CalledWith(f) == entry = f /\ pc = "done"

\* C11: neither currency function raises.  clean_money_value returns the
\* integer left after removing every '£', space and comma ('£ 47,070,570'
\* and '£47,070,570' give 47070570) and 0 for '', 'N/A' and every remainder
\* that is not an integer; clean_currency returns the integer left after
\* removing '$', commas and whitespace, and None for empty or unparsable
\* text.
C11_NormalizersReturnSentinel ==
    /\ CalledWith("clean_money_value") =>
          LET t == args.money_str
              r == Kept(t, {"£", " ", ","})
          IN  /\ outcome.raised = "none"
              /\ AllDigits(r) => outcome.value = <<Decimal(r)>>
              /\ (t = <<>> \/ t = <<"N", "/", "A">> \/ Unparsable(r)) =>
                    outcome.value = <<0>>
              /\ t \in {<<"£", " ", "4", "7", ",", "0", "7", "0", ",", "5", "7", "0">>,
                        <<"£", "4", "7", ",", "0", "7", "0", ",", "5", "7", "0">>} =>
                    outcome.value = <<47070570>>
    /\ CalledWith("clean_currency") =>
          LET t == args.text
              r == Kept(t, {"$", ",", " ", "\t", "\n"})
          IN  /\ outcome.raised = "none"
              /\ AllDigits(r) => outcome.value = <<Decimal(r)>>
              /\ (t = <<>> \/ Unparsable(r)) => outcome.value = None
              /\ t = <<"$", "4", "7", ",", "0", "7", "0", ",", "5", "7", "0">> =>
                    outcome.value = <<47070570>>

C11_Witness ==
    /\ CalledWith("clean_money_value")
    /\ args.money_str = <<"£", "4", "x">>
    /\ outcome = [raised |-> "none", value |-> <<0>>]

\* The text of a figure reads as an integer once '$', commas and
\* whitespace are removed.
FigureDigits(f) == Kept(f.text, {"$", ",", " ", "\t", "\n"})

\* C12: a single call of extract_box_office_data whose page lacks the
\* box_office_summary container returns None, and so does one whose fetch
\* failed; a page with the container always gives a record with the title
\* and url passed in, in which each of the four figures is None when its
\* section or its value element is absent or its text is no integer, and
\* the integer of its text otherwise, whatever the other figures are.
C12_ContainerVersusField ==
    CalledWith("extract_box_office_data") =>
        /\ gp.result = "None" => outcome = [raised |-> "none", value |-> None]
        /\ (gp.result = "Response" /\ gp.content.kind = "nobox") =>
              outcome = [raised |-> "none", value |-> None]
        /\ (gp.result = "Response" /\ gp.content.kind = "box") =>
              /\ outcome.raised = "none"
              /\ outcome.value # None
              /\ DOMAIN outcome.value =
                    {"title", "url"} \cup SectionKeys
              /\ outcome.value.title = args.movie_title
              /\ outcome.value.url = args.movie_url
              /\ \A k \in SectionKeys :
                    LET f == gp.content.fields[k]
                    IN  /\ (~f.section \/ ~f.value_div \/ Unparsable(FigureDigits(f))) =>
                              outcome.value[k] = None
                        /\ (f.section /\ f.value_div /\ AllDigits(FigureDigits(f))) =>
                              outcome.value[k] = <<Decimal(FigureDigits(f))>>

C12_Witness ==
    /\ CalledWith("extract_box_office_data")
    /\ gp.result = "Response"
    /\ gp.content.kind = "box"
    /\ ~gp.content.fields["opening_weekend"].section
    /\ outcome.value.opening_weekend = None
    /\ outcome.value.gross_world = <<1200>>
    /\ gp.content.fields["budget"].text = <<"N", "/", "A">>
    /\ outcome.value.budget = None
    /\ outcome.value.gross_usa_canada = <<0>>

\* str(n) for n >= 0
RECURSIVE Str(_)
Str(n) ==
    IF n < 10 THEN <<CHOOSE c \in Digit : DigitVal(c) = n>>
    ELSE Append(Str(n \div 10), CHOOSE c \in Digit : DigitVal(c) = n % 10)

\* f"{year}-{year + 1}" for the season <<year, year + 1>>
SeasonText(season) == Str(season[1]) \o <<"-">> \o Str(season[2])

\* the list seasons_manual of __main__
seasons_manual ==
    <<<<"2", "0", "1", "3", "-", "2", "0", "1", "4">>,
      <<"2", "0", "1", "4", "-", "2", "0", "1", "5">>,
      <<"2", "0", "1", "5", "-", "2", "0", "1", "6">>,
      <<"2", "0", "1", "6", "-", "2", "0", "1", "7">>,
      <<"2", "0", "1", "7", "-", "2", "0", "1", "8">>,
      <<"2", "0", "1", "8", "-", "2", "0", "1", "9">>,
      <<"2", "0", "1", "9", "-", "2", "0", "2", "0">>,
      <<"2", "0", "2", "0", "-", "2", "0", "2", "1">>,
      <<"2", "0", "2", "1", "-", "2", "0", "2", "2">>,
      <<"2", "0", "2", "2", "-", "2", "0", "2", "3">>,
      <<"2", "0", "2", "3", "-", "2", "0", "2", "4">>>>

\* C13: generate_season_list(start_year, end_year) returns the seasons
\* 'y-(y+1)' in ascending order from start_year, and the call
\* generate_season_list(2013, 2025) returns the 11 seasons of the manual
\* list, 2013-2014 to 2023-2024, the last one being 2023-2024.
C13_SeasonsThrough2023 ==
    CalledWith("generate_season_list") =>
        LET list == outcome.value
            text == [i \in 1..Len(list) |-> SeasonText(list[i])]
        IN  /\ \A i \in 1..Len(list) :
                  list[i] = <<args.start_year + i - 1, args.start_year + i>>
            /\ (args.start_year = 2013 /\ args.end_year = 2025) =>
                  /\ text = seasons_manual
                  /\ Len(text) = 11
                  /\ text[Len(text)] = <<"2", "0", "2", "3", "-", "2", "0", "2", "4">>

(***************************************************************************)
(* Properties of the record set self.data.                                 *)
(***************************************************************************)
InScrapeYear ==
    /\ entry \in {"scrape_year", "scrape_all_years"}
    /\ pc \in {"movie_loop", "extract_box_office_data"}

\* The position in the work list of the link a record came from.
LinkPosition(rec) ==
    CHOOSE i \in 1..Len(movie_links) : movie_links[i].title = rec.title

\* C14: self.data only grows at its end: every step leaves the previous
\* contents as a prefix; during a call of scrape_year and at its return,
\* self.data is the records of the earlier calls followed by year_data, the
\* records of year_data are in the order of the work list and each carries
\* the year of the call.
C14_DataIsAppendOnly ==
    /\ [](InScrapeYear =>
            /\ data = SelectSeq(data, LAMBDA r : r.year < year) \o year_data
            /\ \A i \in 1..Len(year_data) :
                  /\ year_data[i].year = year
                  /\ \E k \in 1..Len(movie_links) : movie_links[k].title = year_data[i].title
                  /\ LinkPosition(year_data[i]) < idx + 1
            /\ \A i, j \in 1..Len(year_data) :
                  i < j => LinkPosition(year_data[i]) < LinkPosition(year_data[j]))
    /\ [][/\ Len(data') >= Len(data)
          /\ SubSeq(data', 1, Len(data)) = data]_vars

C14_Witness ==
    /\ entry = "scrape_all_years"
    /\ pc = "movie_loop"
    /\ idx > Len(movie_links)
    /\ year = FirstYear + 1
    /\ Len(data) = 3
    /\ Len(year_data) = 2
    /\ data[1].year = FirstYear
    /\ data[3].year = FirstYear + 1

====
